---- MODULE Spec2Model ----
(***************************************************************************)
(* Model of tools/extract_docx_text.py: the pure function                  *)
(* extract_docx_text (paragraphs and table rows of a document flattened to *)
(* text) and the batch driver main (glob, sort, extract, write, print).    *)
(* Strings are sequences of one-character strings.                         *)
(***************************************************************************)
EXTENDS Naturals, Sequences, FiniteSets

VARIABLES
    doc,          \* extract_docx_text: the document handed to the function
    epc,          \* extract_docx_text: "call" before, "returned" after
    result,       \* extract_docx_text: the returned string
    dirExists,    \* main: whether the Requirements directory exists
    fs,           \* main: the files of the directory, name -> content
    pc,           \* main: position in main
    docx_files,   \* main: the sorted list of matching paths
    idx,          \* main: position of the for loop in docx_files
    extracted,    \* main: the text returned for the current file
    stdout,       \* main: the lines printed by this run
    exitMsg,      \* main: the message the process ended with, or NoMsg
    trace,        \* main: the events of this run, in order
    fs0,          \* history: fs when this run started
    runs,         \* history: number of the current run
    prevFs,       \* history: fs when the previous run ended
    prevFiles     \* history: docx_files of the previous run

extractVars == <<doc, epc, result>>
mainVars == <<dirExists, fs, pc, docx_files, idx, extracted, stdout, exitMsg,
              trace, fs0, runs, prevFs, prevFiles>>
vars == <<doc, epc, result, dirExists, fs, pc, docx_files, idx, extracted,
          stdout, exitMsg, trace, fs0, runs, prevFs, prevFiles>>

----------------------------------------------------------------------------
(* Bounds *)

\* A document has at most this many elements (paragraphs, tables, rows, cells).
MaxDocSize == 5
\* The Requirements directory holds at most this many files.
MaxFiles == 3
\* main is run at most this many times in succession.
MaxRuns == 2

----------------------------------------------------------------------------
(* Characters and strings *)

SP == " "
NL == "\n"

\* The characters str.strip() removes, among those the model uses.
WhiteSpace == {SP, NL}

IsSpace(c) == c \in WhiteSpace

RECURSIVE LStrip(_)
LStrip(s) ==
    IF s = <<>> THEN s
    ELSE IF IsSpace(Head(s)) THEN LStrip(Tail(s)) ELSE s

RECURSIVE RStrip(_)
RStrip(s) ==
    IF s = <<>> THEN s
    ELSE IF IsSpace(s[Len(s)]) THEN RStrip(SubSeq(s, 1, Len(s) - 1)) ELSE s

\* str.strip(): leading and trailing whitespace removed.
Strip(s) == RStrip(LStrip(s))

\* str.replace(old, new) for one-character old and new.
Replace(s, old, new) == [k \in 1..Len(s) |-> IF s[k] = old THEN new ELSE s[k]]

\* sep.join(xs)
RECURSIVE Join(_, _)
Join(sep, xs) ==
    IF xs = <<>> THEN <<>>
    ELSE IF Len(xs) = 1 THEN xs[1]
    ELSE xs[1] \o sep \o Join(sep, Tail(xs))

\* (text or ""): None becomes the empty string.
None == "None"
OrEmpty(t) == IF t = None THEN <<>> ELSE t

----------------------------------------------------------------------------
(* extract_docx_text *)

\* The " | " delimiter of a row's cells.
CellSep == <<SP, "|", SP>>

\* Lines 13-16: the trimmed text of each paragraph, the empty ones left out.
RECURSIVE ParagraphLines(_)
ParagraphLines(ps) ==
    IF ps = <<>> THEN <<>>
    ELSE LET text == Strip(OrEmpty(Head(ps)))
         IN  (IF text # <<>> THEN <<text>> ELSE <<>>) \o ParagraphLines(Tail(ps))

\* Lines 20-22: each cell trimmed, then its newlines replaced by spaces.
RowCells(row) == [k \in 1..Len(row) |-> Replace(Strip(OrEmpty(row[k])), NL, SP)]

\* Mutant of AnyCell: `if cells:` in place of `if any(cells):`.
AnyCellNonEmptyList(cells) == Len(cells) > 0

\* any(cells): some cell is a non-empty string.
AnyCell(cells) == \E k \in 1..Len(cells) : cells[k] # <<>>

\* Lines 19-24 for one table.
RECURSIVE RowLines(_)
RowLines(rows) ==
    IF rows = <<>> THEN <<>>
    ELSE LET cells == RowCells(Head(rows))
         IN  (IF AnyCell(cells) THEN <<Join(CellSep, cells)>> ELSE <<>>)
             \o RowLines(Tail(rows))

\* Lines 18-24: the row lines of every table, in table order.
RECURSIVE TableLines(_)
TableLines(ts) ==
    IF ts = <<>> THEN <<>> ELSE RowLines(Head(ts)) \o TableLines(Tail(ts))

\* The list `lines` when the two loops are over.
CollectedLines(d) == ParagraphLines(d.paragraphs) \o TableLines(d.tables)

\* Line 26: "\n".join(lines).strip() + "\n"
JoinLines(lines) == Strip(Join(<<NL>>, lines)) \o <<NL>>

extract_docx_text(d) == JoinLines(CollectedLines(d))

----------------------------------------------------------------------------
(* Documents handed to extract_docx_text *)

ParaTexts == { <<>>, <<SP>>, <<SP, "a">>, <<"c", NL, "d">> }
CellTexts == { <<>>, <<SP>>, <<"b", SP>>, <<"c", NL, "d">> }

EmptyDoc == [paragraphs |-> <<>>, tables |-> <<>>]

\* The documents one element larger than d.
Extend(d) ==
    LET nt == Len(d.tables)
        lastT == d.tables[nt]
        nr == Len(lastT)
    IN  { [d EXCEPT !.paragraphs = Append(@, t)] : t \in ParaTexts }
        \cup { [d EXCEPT !.tables = Append(@, <<>>)] }
        \cup (IF nt = 0 THEN {}
              ELSE { [d EXCEPT !.tables[nt] = Append(@, <<>>)] })
        \cup (IF nt = 0 \/ (nt > 0 /\ nr = 0) THEN {}
              ELSE { [d EXCEPT !.tables[nt][nr] = Append(@, t)] : t \in CellTexts })

RECURSIVE Grow(_, _, _)
Grow(S, frontier, n) ==
    IF n = 0 THEN S
    ELSE LET new == UNION { Extend(d) : d \in frontier }
         IN  Grow(S \cup new, new, n - 1)

\* Every document of at most MaxDocSize elements.
Docs == Grow({EmptyDoc}, {EmptyDoc}, MaxDocSize)

\* A call of extract_docx_text(doc) on an open document.
Call ==
    /\ epc = "call"
    /\ result' = extract_docx_text(doc)
    /\ epc' = "returned"
    /\ UNCHANGED <<doc, dirExists, fs, pc, docx_files, idx, extracted, stdout,
                   exitMsg, trace, fs0, runs, prevFs, prevFiles>>

----------------------------------------------------------------------------
(* File names *)

\* The code point of a character, for the comparison of paths by sorted().
Ord(c) ==
    CASE c = "." -> 46
      [] c = "_" -> 95
      [] c = "a" -> 97
      [] c = "b" -> 98
      [] c = "c" -> 99
      [] c = "d" -> 100
      [] c = "e" -> 101
      [] c = "o" -> 111
      [] c = "r" -> 114
      [] c = "t" -> 116
      [] c = "x" -> 120

\* s < t for two strings, as Python compares them.
RECURSIVE LexLess(_, _)
LexLess(s, t) ==
    IF t = <<>> THEN FALSE
    ELSE IF s = <<>> THEN TRUE
    ELSE IF Ord(Head(s)) < Ord(Head(t)) THEN TRUE
    ELSE IF Ord(Head(s)) > Ord(Head(t)) THEN FALSE
    ELSE LexLess(Tail(s), Tail(t))

RECURSIVE Insert(_, _)
Insert(x, s) ==
    IF s = <<>> THEN <<x>>
    ELSE IF LexLess(x, Head(s)) THEN <<x>> \o s
    ELSE <<Head(s)>> \o Insert(x, Tail(s))

\* Mutant of Sorted: the enumeration order is kept.
Unsorted(seq) == seq

\* sorted(...): the paths in ascending order.
RECURSIVE Sorted(_)
Sorted(seq) ==
    IF seq = <<>> THEN <<>> ELSE Insert(Head(seq), Sorted(Tail(seq)))

DocxExt == <<".", "d", "o", "c", "x">>
TxtExt == <<".", "t", "x", "t">>
ExtractedPrefix == <<"_", "e", "x", "t", "r", "a", "c", "t", "e", "d", "_">>

\* Mutant of Match: glob("*") in place of glob("*.docx").
MatchAll(name) == TRUE

\* Whether a file name matches the pattern "*.docx".
Match(name) ==
    /\ Len(name) >= Len(DocxExt)
    /\ SubSeq(name, Len(name) - Len(DocxExt) + 1, Len(name)) = DocxExt

\* requirements_dir.glob("*.docx"): the matching entries of the directory.
Glob(files) == { n \in DOMAIN files : Match(n) }

\* The orders in which the filesystem may enumerate a set of entries.
Enumerations(S) ==
    { e \in [1..Cardinality(S) -> S] :
        \A j, k \in 1..Cardinality(S) : j # k => e[j] # e[k] }

\* The position of the last "." of a name, 0 when it has none (rfind + 1).
RECURSIVE LastDot(_)
LastDot(name) ==
    IF name = <<>> THEN 0
    ELSE IF name[Len(name)] = "." THEN Len(name)
    ELSE LastDot(SubSeq(name, 1, Len(name) - 1))

\* PurePath.stem: the name without its last suffix; a leading or a trailing
\* dot starts no suffix.
Stem(name) ==
    LET j == LastDot(name)
    IN  IF 1 < j /\ j < Len(name) THEN SubSeq(name, 1, j - 1) ELSE name

\* Line 42: the name of the output file, f"_extracted_{docx_path.stem}.txt".
OutName(name) == ExtractedPrefix \o Stem(name) \o TxtExt

----------------------------------------------------------------------------
(* The Requirements directory *)

RequirementsDir == "<repo_root>/Requirements"

DocP == [paragraphs |-> << <<SP, "a">> >>, tables |-> <<>>]
DocT == [paragraphs |-> <<>>,
         tables |-> << << << <<"b", SP>>, <<"c", NL, "d">> >> >> >>]

DocxFile(d) == [kind |-> "docx", doc |-> d, text |-> <<>>]
TextFile(t) == [kind |-> "text", doc |-> EmptyDoc, text |-> t]
\* A file that is no document container.
BrokenFile == [kind |-> "other", doc |-> EmptyDoc, text |-> <<>>]

NamePool ==
    { <<"a">> \o DocxExt, <<"b">> \o DocxExt, DocxExt, DocxExt \o DocxExt,
      <<"a">> \o TxtExt, ExtractedPrefix \o <<"a">> \o TxtExt }

ContentsFor(n) ==
    IF Match(n) THEN { DocxFile(DocP), DocxFile(DocT), BrokenFile }
    ELSE { TextFile(<<"o", NL>>) }

EmptyDir == [n \in {} |-> BrokenFile]

\* The directories of at most MaxFiles files.
Dirs ==
    UNION { { f \in [D -> UNION { ContentsFor(n) : n \in D }] :
                \A n \in D : f[n] \in ContentsFor(n) } :
            D \in { D \in SUBSET NamePool : Cardinality(D) <= MaxFiles } }

----------------------------------------------------------------------------
(* main *)

NoMsg == <<>>

Event(op, file, text) == [op |-> op, file |-> file, text |-> text]

\* Mutant of WriteText: the file is opened for appending.
WriteTextAppend(files, out, text) ==
    [n \in DOMAIN files \cup {out} |->
        IF n = out
        THEN TextFile((IF out \in DOMAIN files THEN files[out].text ELSE <<>>) \o text)
        ELSE files[n]]

\* Line 43: out_path.write_text(extracted): the file is created or replaced.
WriteText(files, out, text) ==
    [n \in DOMAIN files \cup {out} |-> IF n = out THEN TextFile(text) ELSE files[n]]

\* Mutant of ConfirmLine: the trailing newline is not counted.
ConfirmLineStripped(out, text) ==
    [wrote |-> out, chars |-> Len(Strip(text))]

\* Line 44: f"Wrote {out_path.name} (chars={len(extracted)})"
ConfirmLine(out, text) == [wrote |-> out, chars |-> Len(text)]

\* Lines 30-34: the directory is looked up; SystemExit when it is missing.
Start ==
    /\ pc = "start"
    /\ IF ~dirExists
       THEN /\ pc' = "exited"
            /\ exitMsg' = <<"Missing Requirements folder: ", RequirementsDir>>
       ELSE /\ pc' = "glob"
            /\ UNCHANGED exitMsg
    /\ UNCHANGED <<doc, epc, result, dirExists, fs, docx_files, idx, extracted,
                   stdout, trace, fs0, runs, prevFs, prevFiles>>

\* Lines 36-38: the matching files, enumerated in any order, are sorted;
\* SystemExit when there is none.
GlobSort ==
    /\ pc = "glob"
    /\ \E enum \in Enumerations(Glob(fs)) :
         /\ docx_files' = Sorted(enum)
         /\ IF Sorted(enum) = <<>>
            THEN /\ pc' = "exited"
                 /\ exitMsg' = <<"No .docx files found in: ", RequirementsDir>>
            ELSE /\ pc' = "extract"
                 /\ UNCHANGED exitMsg
    /\ idx' = 1
    /\ UNCHANGED <<doc, epc, result, dirExists, fs, extracted, stdout, trace,
                   fs0, runs, prevFs, prevFiles>>

\* Line 41: extract_docx_text(docx_path); Document(docx_path) raises on a file
\* that is no document container, and nothing catches it.
Extract ==
    /\ pc = "extract"
    /\ LET name == docx_files[idx]
       IN  IF fs[name].kind = "docx"
           THEN /\ extracted' = extract_docx_text(fs[name].doc)
                /\ trace' = Append(trace, Event("extract", name, <<>>))
                /\ pc' = "write"
                /\ UNCHANGED exitMsg
           ELSE /\ trace' = Append(trace, Event("raise", name, <<>>))
                /\ pc' = "crashed"
                /\ exitMsg' = <<"Document: not a document container: ", name>>
                /\ UNCHANGED extracted
    /\ UNCHANGED <<doc, epc, result, dirExists, fs, docx_files, idx, stdout,
                   fs0, runs, prevFs, prevFiles>>

\* Lines 42-43: the text is written to the output file.
Write ==
    /\ pc = "write"
    /\ LET name == docx_files[idx]
       IN  /\ fs' = WriteText(fs, OutName(name), extracted)
           /\ trace' = Append(trace, Event("write", name, extracted))
    /\ pc' = "print"
    /\ UNCHANGED <<doc, epc, result, dirExists, docx_files, idx, extracted,
                   stdout, exitMsg, fs0, runs, prevFs, prevFiles>>

\* Line 44, and line 40: the confirmation is printed and the loop goes on to
\* the next file, or main returns.
PrintLine ==
    /\ pc = "print"
    /\ LET name == docx_files[idx]
       IN  /\ stdout' = Append(stdout, ConfirmLine(OutName(name), extracted))
           /\ trace' = Append(trace, Event("print", name, <<>>))
    /\ idx' = idx + 1
    /\ pc' = IF idx = Len(docx_files) THEN "done" ELSE "extract"
    /\ UNCHANGED <<doc, epc, result, dirExists, fs, docx_files, extracted,
                   exitMsg, fs0, runs, prevFs, prevFiles>>

Ended == pc \in {"done", "exited", "crashed"}

\* Line 48: the program is started again on the directory as the last run
\* left it.
Rerun ==
    /\ Ended
    /\ runs < MaxRuns
    /\ runs' = runs + 1
    /\ prevFs' = fs
    /\ prevFiles' = docx_files
    /\ fs0' = fs
    /\ pc' = "start"
    /\ docx_files' = <<>>
    /\ idx' = 1
    /\ extracted' = <<>>
    /\ stdout' = <<>>
    /\ exitMsg' = NoMsg
    /\ trace' = <<>>
    /\ UNCHANGED <<doc, epc, result, dirExists, fs>>

Init ==
    /\ doc = EmptyDoc
    /\ epc = "idle"
    /\ result = <<>>
    /\ dirExists \in BOOLEAN
    /\ fs \in (IF dirExists THEN Dirs ELSE {EmptyDir})
    /\ pc = "start"
    /\ docx_files = <<>>
    /\ idx = 1
    /\ extracted = <<>>
    /\ stdout = <<>>
    /\ exitMsg = NoMsg
    /\ trace = <<>>
    /\ fs0 = fs
    /\ runs = 1
    /\ prevFs = EmptyDir
    /\ prevFiles = <<>>

Next == Start \/ GlobSort \/ Extract \/ Write \/ PrintLine \/ Rerun

Spec == Init /\ [][Next]_vars


InitExtract ==
    /\ doc \in Docs
    /\ epc = "call"
    /\ result = <<>>
    /\ dirExists = FALSE
    /\ fs = EmptyDir
    /\ pc = "idle"
    /\ docx_files = <<>>
    /\ idx = 1
    /\ extracted = <<>>
    /\ stdout = <<>>
    /\ exitMsg = NoMsg
    /\ trace = <<>>
    /\ fs0 = EmptyDir
    /\ runs = 1
    /\ prevFs = EmptyDir
    /\ prevFiles = <<>>

NextExtract == Call

SpecExtract == InitExtract /\ [][NextExtract]_vars

----------------------------------------------------------------------------
(* Claims about extract_docx_text, checked under SpecExtract *)

\* s cut at every occurrence of the character c.
RECURSIVE SplitAt(_, _, _)
SplitAt(s, c, cur) ==
    IF s = <<>> THEN <<cur>>
    ELSE IF Head(s) = c THEN <<cur>> \o SplitAt(Tail(s), c, <<>>)
    ELSE SplitAt(Tail(s), c, Append(cur, Head(s)))

\* The lines of a returned text: what precedes its final newline, cut at the
\* newlines; a text that is only the final newline has no line.
ResultLines(r) ==
    IF r = <<>> \/ r[Len(r)] # NL THEN SplitAt(r, NL, <<>>)
    ELSE IF Len(r) = 1 THEN <<>>
    ELSE SplitAt(SubSeq(r, 1, Len(r) - 1), NL, <<>>)

\* The positions of the paragraphs whose trimmed text is not empty.
NonBlankParagraphs(d) ==
    { k \in 1..Len(d.paragraphs) : Strip(d.paragraphs[k]) # <<>> }

\* No paragraph and no cell of d has text left after trimming.
AllBlank(d) ==
    /\ NonBlankParagraphs(d) = {}
    /\ \A t \in 1..Len(d.tables) : \A r \in 1..Len(d.tables[t]) :
         \A c \in 1..Len(d.tables[t][r]) : Strip(d.tables[t][r][c]) = <<>>

\* C1: the returned text is exactly the collected lines joined by one newline
\* character and followed by one newline; nothing is added to or removed from
\* the joined lines.
C1_ResultIsJoinedLines ==
    epc = "returned" =>
        result = Join(<<NL>>, CollectedLines(doc)) \o <<NL>>

\* C3: the paragraphs with non-empty trimmed text give one line each, their
\* trimmed text, in document order and before every row line; without tables
\* the result has as many lines as there are such paragraphs.
C3_OneLinePerParagraph ==
    epc = "returned" =>
        LET P == ParagraphLines(doc.paragraphs)
            R == ResultLines(result)
            n == Cardinality(NonBlankParagraphs(doc))
        IN  /\ Len(P) = n
            /\ Len(R) >= n
            /\ SubSeq(R, 1, n) = P
            /\ (doc.tables = <<>> => Len(R) = n)

\* C4: each row with a cell that is non-empty after trimming gives exactly one
\* line of the result, its cells (trimmed, newlines replaced by spaces, empty
\* cells kept) joined by " | ", without a newline in it; a row of empty cells
\* gives none; the row lines come in table order, then row order, after the
\* paragraph lines.
C4_OneLinePerRow ==
    epc = "returned" =>
        LET E == TableLines(doc.tables)
            R == ResultLines(result)
        IN  /\ Len(R) >= Len(E)
            /\ SubSeq(R, Len(R) - Len(E) + 1, Len(R)) = E
            /\ \A k \in 1..Len(E) : \A j \in 1..Len(E[k]) : E[k][j] # NL

\* C5: a document in which no paragraph and no cell has text left after
\* trimming (the empty document among them) gives the single newline.
C5_BlankDocGivesNewline ==
    (epc = "returned" /\ AllBlank(doc)) => result = <<NL>>

\* C5 witness: a blank document with a whitespace-only paragraph and a row of
\* two blank cells has been extracted.
C5_Witness ==
    /\ epc = "returned"
    /\ AllBlank(doc)
    /\ \E k \in 1..Len(doc.paragraphs) : doc.paragraphs[k] = <<SP>>
    /\ \E t \in 1..Len(doc.tables) : \E r \in 1..Len(doc.tables[t]) :
         Len(doc.tables[t][r]) = 2
    /\ result = <<NL>>

----------------------------------------------------------------------------
(* Claims about main, checked under Spec *)

\* A file name with the extension ".docx".
EndsWithDocx(n) ==
    /\ Len(n) >= 5
    /\ n[Len(n) - 4] = "." /\ n[Len(n) - 3] = "d" /\ n[Len(n) - 2] = "o"
    /\ n[Len(n) - 1] = "c" /\ n[Len(n)] = "x"

\* The input files of a directory.
Inputs(files) == { n \in DOMAIN files : EndsWithDocx(n) }

\* The input files of a directory in ascending lexicographic order.
Ascending(files) ==
    CHOOSE e \in Enumerations(Inputs(files)) :
        \A j, k \in 1..Len(e) : j < k => LexLess(e[j], e[k])

\* The events of a run over the files in the order given: each file is
\* extracted, written and confirmed before the next one is touched, and the
\* run ends at the first file that is no document.
RECURSIVE EventsOf(_, _)
EventsOf(files, order) ==
    IF order = <<>> THEN <<>>
    ELSE LET n == Head(order)
         IN  IF files[n].kind = "docx"
             THEN << Event("extract", n, <<>>),
                     Event("write", n, extract_docx_text(files[n].doc)),
                     Event("print", n, <<>>) >>
                  \o EventsOf(files, Tail(order))
             ELSE << Event("raise", n, <<>>) >>

IsPrefix(s, t) == Len(s) <= Len(t) /\ SubSeq(t, 1, Len(s)) = s

InLoop == pc \in {"extract", "write", "print", "done", "crashed"}

\* The text the run has to write for the j-th input file.
TextOf(j) == extract_docx_text(fs0[docx_files[j]].doc)

\* C2: when main has completed, every input file name.docx has its output
\* file _extracted_name.txt holding extract_docx_text(name.docx), which ends
\* in a newline; distinct inputs have distinct outputs, none overwritten.
C2_EveryInputHasItsOutput ==
    pc = "done" =>
        \A j \in 1..Len(docx_files) :
            LET out == OutName(docx_files[j])
            IN  /\ out \in DOMAIN fs
                /\ fs[out] = TextFile(TextOf(j))
                /\ fs[out].text[Len(fs[out].text)] = NL
                /\ \A k \in 1..Len(docx_files) :
                       k # j => OutName(docx_files[k]) # out

\* C6: the files are processed in ascending lexicographic order of their
\* names whatever the enumeration order: the list is the ascending one, and
\* the events of the run are those of that order, a file's extraction, write
\* and confirmation all before the next file's extraction.
C6_LexicographicOrder ==
    /\ InLoop => docx_files = Ascending(fs0)
    /\ IsPrefix(trace, EventsOf(fs0, Ascending(fs0)))
    /\ pc \in {"done", "crashed"} => trace = EventsOf(fs0, Ascending(fs0))

\* C6 witness: a run over three files has completed.
C6_Witness ==
    /\ pc = "done"
    /\ Len(docx_files) = 3
    /\ Len(trace) = 9

\* C7: when the extraction of the k-th file fails, the run ends there; the
\* outputs of the k-1 earlier files are in place with their full text, and
\* nothing is written or printed for the k-th file or a later one.
C7_FailureKeepsEarlierOutputs ==
    pc = "crashed" =>
        /\ fs0[docx_files[idx]].kind # "docx"
        /\ exitMsg # NoMsg
        /\ \A j \in 1..(idx - 1) :
               LET out == OutName(docx_files[j])
               IN  out \in DOMAIN fs /\ fs[out] = TextFile(TextOf(j))
        /\ Len(stdout) = idx - 1
        /\ \A e \in 1..Len(trace) : \A j \in idx..Len(docx_files) :
               trace[e].file = docx_files[j] => trace[e].op = "raise"

\* C8: without the directory, or without a *.docx file in it, main ends with
\* an error message naming the directory before any extraction; no file is
\* created or modified and nothing is printed.
C8_NoInputFailsFast ==
    (~dirExists \/ Inputs(fs0) = {}) =>
        /\ pc \in {"start", "glob", "exited"}
        /\ trace = <<>>
        /\ stdout = <<>>
        /\ fs = fs0
        /\ pc = "exited" =>
               /\ Len(exitMsg) = 2
               /\ exitMsg[2] = RequirementsDir
               /\ exitMsg[1] = IF dirExists THEN "No .docx files found in: "
                               ELSE "Missing Requirements folder: "

\* C8 witness: main has ended with the error on a directory that holds only
\* files that are not *.docx.
C8_Witness ==
    /\ pc = "exited"
    /\ dirExists
    /\ DOMAIN fs # {}
    /\ Inputs(fs) = {}

\* C9: a second run on the unchanged directory finds the same input files and
\* leaves the directory as the first run left it, every file with the same
\* content.
C9_SecondRunIdentical ==
    runs >= 2 =>
        /\ InLoop => docx_files = prevFiles
        /\ Ended => (fs = prevFs /\ DOMAIN fs = DOMAIN prevFs)
        /\ \A j \in 1..Len(docx_files) : docx_files[j] \in Inputs(prevFs)

\* C9 witness: the second run has completed over two files whose outputs the
\* first run had written.
C9_Witness ==
    /\ runs = 2
    /\ pc = "done"
    /\ Len(docx_files) = 2
    /\ \A j \in 1..2 : OutName(docx_files[j]) \in DOMAIN prevFs
    /\ fs = prevFs

\* C10: one confirmation line per processed file, in processing order, each
\* printed right after the file's output was written, naming
\* _extracted_<stem>.txt and the length of the written text, trailing newline
\* counted, so at least 1.
C10_ConfirmationLines ==
    /\ InLoop => Len(stdout) = idx - 1
    /\ pc = "done" => Len(stdout) = Len(docx_files)
    /\ \A j \in 1..Len(stdout) :
           /\ stdout[j].wrote = ExtractedPrefix \o Stem(docx_files[j]) \o TxtExt
           /\ stdout[j].chars >= 1
           /\ 3 * j <= Len(trace)
           /\ trace[3 * j - 1] = Event("write", docx_files[j], TextOf(j))
           /\ trace[3 * j] = Event("print", docx_files[j], <<>>)
           /\ stdout[j].chars = Len(trace[3 * j - 1].text)
           /\ TextOf(j)[stdout[j].chars] = NL

\* C10 witness: a run has completed with two confirmation lines of different
\* lengths.
C10_Witness ==
    /\ pc = "done"
    /\ Len(stdout) = 2
    /\ stdout[1].chars # stdout[2].chars

====
